---- MODULE Spec2Model ----
(***************************************************************************)
(* Model of src/app.py: the material price catalog (CATALOGO), its load    *)
(* (carregar_catalogo) and the HTTP handlers /health, /materiais, /reload  *)
(* and /preco.                                                             *)
(*                                                                         *)
(* A Python str is a sequence of characters; a character is a one-letter   *)
(* string, or a name for a non-ASCII character: "eacute" (e with acute),   *)
(* "atilde", "aacute", "ccedil", "Eacute" (capital E with acute), "bei"    *)
(* and "jing" (the two CJK characters U+5317 and U+4EAC) and "euro".       *)
(***************************************************************************)
EXTENDS Integers, Sequences, FiniteSets, TLC

\* ------------------------------------------------------------------------
\* Bounds of the model
\* ------------------------------------------------------------------------
\* rows of a fetched sheet that a load reads
MaxRows == 3
\* comma-separated pieces of a generated /preco query
MaxItens == 1
\* length of the strings the pure functions are applied to
MaxLen == 3

\* ------------------------------------------------------------------------
\* Python values and str primitives
\* ------------------------------------------------------------------------
\* Python's None, where a str is expected
None == <<"None">>

LowerLetters ==
  {"a","b","c","d","e","f","g","h","i","j","k","l","m",
   "n","o","p","q","r","s","t","u","v","w","x","y","z"}

Digits == {"0","1","2","3","4","5","6","7","8","9"}

\* str.lower(), character by character
LowerTable ==
  [A |-> "a", B |-> "b", C |-> "c", D |-> "d", E |-> "e", F |-> "f",
   G |-> "g", H |-> "h", I |-> "i", J |-> "j", K |-> "k", L |-> "l",
   M |-> "m", N |-> "n", O |-> "o", P |-> "p", Q |-> "q", R |-> "r",
   S |-> "s", T |-> "t", U |-> "u", V |-> "v", W |-> "w", X |-> "x",
   Y |-> "y", Z |-> "z", Eacute |-> "eacute"]

UpperLetters == DOMAIN LowerTable \ {"Eacute"}

LowerChar(c) == IF c \in DOMAIN LowerTable THEN LowerTable[c] ELSE c

lower(s) == [i \in 1..Len(s) |-> LowerChar(s[i])]

\* unidecode.unidecode(): ASCII is kept, every other character becomes its
\* ASCII transliteration (which may hold capitals and a trailing space)
UnidecodeTable ==
  [eacute |-> <<"e">>, Eacute |-> <<"E">>, aacute |-> <<"a">>,
   atilde |-> <<"a">>, ccedil |-> <<"c">>,
   bei  |-> <<"B","e","i"," ">>,
   jing |-> <<"J","i","n","g"," ">>,
   euro |-> <<"E","U","R">>]

RECURSIVE unidecode(_)
unidecode(s) ==
  IF s = <<>> THEN <<>>
  ELSE (IF Head(s) \in DOMAIN UnidecodeTable
          THEN UnidecodeTable[Head(s)] ELSE <<Head(s)>>)
       \o unidecode(Tail(s))

\* \w of the regular expression, on the ASCII text unidecode returns
IsWordChar(c) == c \in LowerLetters \cup UpperLetters \cup Digits \cup {"_"}

\* str.isspace() for one character
IsSpace(c) == c = " "

\* re.sub(r"\bde\b", " ", t): left to right, each whole word "de" -> " "
DeAt(t, i) ==
  /\ i + 1 <= Len(t)
  /\ t[i] = "d"
  /\ t[i + 1] = "e"
  /\ (i = 1 \/ ~IsWordChar(t[i - 1]))
  /\ (i + 1 = Len(t) \/ ~IsWordChar(t[i + 2]))

RECURSIVE SubDeFrom(_, _)
SubDeFrom(t, i) ==
  IF i > Len(t) THEN <<>>
  ELSE IF DeAt(t, i) THEN <<" ">> \o SubDeFrom(t, i + 2)
  ELSE <<t[i]>> \o SubDeFrom(t, i + 1)

SubDe(t) == SubDeFrom(t, 1)

\* t.replace("-", " ")
ReplaceHyphen(t) == [i \in 1..Len(t) |-> IF t[i] = "-" THEN " " ELSE t[i]]

\* str.strip()
RECURSIVE LStrip(_)
LStrip(s) ==
  IF s # <<>> /\ IsSpace(Head(s)) THEN LStrip(Tail(s)) ELSE s

RECURSIVE RStrip(_)
RStrip(s) ==
  IF s # <<>> /\ IsSpace(s[Len(s)]) THEN RStrip(SubSeq(s, 1, Len(s) - 1)) ELSE s

Strip(s) == RStrip(LStrip(s))

\* str.split(sep) for a one-character sep: the pieces between the separators,
\* empty pieces included
RECURSIVE SplitOn(_, _, _)
SplitOn(s, sep, cur) ==
  IF s = <<>> THEN <<cur>>
  ELSE IF Head(s) = sep THEN <<cur>> \o SplitOn(Tail(s), sep, <<>>)
  ELSE SplitOn(Tail(s), sep, Append(cur, Head(s)))

\* t.split(): the maximal runs of non-whitespace
SplitWords(t) == SelectSeq(SplitOn(t, " ", <<>>), LAMBDA w : w # <<>>)

\* " ".join(ws)
RECURSIVE JoinSpace(_)
JoinSpace(ws) ==
  IF ws = <<>> THEN <<>>
  ELSE IF Len(ws) = 1 THEN ws[1]
  ELSE ws[1] \o <<" ">> \o JoinSpace(Tail(ws))

\* ------------------------------------------------------------------------
\* norm_nome
\* ------------------------------------------------------------------------
norm_nome(txt) ==
  IF txt = None THEN <<>>
  ELSE JoinSpace(SplitWords(ReplaceHyphen(SubDe(unidecode(lower(txt))))))

\* ------------------------------------------------------------------------
\* parse_preco
\* ------------------------------------------------------------------------
\* the result of parse_preco: <<n>> for the int n, <<>> for None
NoPreco == <<>>

SomePreco(n) == <<n>>

DigitTable ==
  [c \in Digits |->
     CASE c = "0" -> 0 [] c = "1" -> 1 [] c = "2" -> 2 [] c = "3" -> 3
       [] c = "4" -> 4 [] c = "5" -> 5 [] c = "6" -> 6 [] c = "7" -> 7
       [] c = "8" -> 8 [] c = "9" -> 9]

\* int(digs) for a string of decimal digits (0 for the empty string, which
\* the callers exclude where Python would raise)
RECURSIVE IntOfDigits(_)
IntOfDigits(digs) ==
  IF digs = <<>> THEN 0
  ELSE 10 * IntOfDigits(SubSeq(digs, 1, Len(digs) - 1)) + DigitTable[digs[Len(digs)]]

\* s.replace(".", "")
RemoveDots(s) == SelectSeq(s, LAMBDA c : c # ".")

\* s.replace(",", ".")
CommaToDot(s) == [i \in 1..Len(s) |-> IF s[i] = "," THEN "." ELSE s[i]]

\* the unsigned part of a float literal: digits with at most one ".", and at
\* least one digit.  Exponents, underscores, "inf" and "nan" do not occur in
\* the price cells of the model (BaseSheets, FnInputs); every other text makes
\* float() raise ValueError.
FloatBodyOk(b) ==
  /\ \A i \in 1..Len(b) : b[i] \in Digits \cup {"."}
  /\ Cardinality({i \in 1..Len(b) : b[i] = "."}) <= 1
  /\ \E i \in 1..Len(b) : b[i] \in Digits

\* float(s) accepts surrounding whitespace and one leading sign
FloatSign(s) ==
  LET u == Strip(s) IN
  IF u # <<>> /\ Head(u) \in {"-", "+"} THEN Head(u) ELSE "+"

FloatBody(s) ==
  LET u == Strip(s) IN
  IF u # <<>> /\ Head(u) \in {"-", "+"} THEN Tail(u) ELSE u

FloatOk(s) == FloatBodyOk(FloatBody(s))

\* the digits before and after the "." of a float body
IntPart(b) == SplitOn(b, ".", <<>>)[1]

FracPart(b) ==
  LET ps == SplitOn(b, ".", <<>>) IN IF Len(ps) > 1 THEN ps[2] ELSE <<>>

\* the fraction 0.f compared with one half: -1 below, 0 equal, 1 above
FracVsHalf(f) ==
  IF f = <<>> THEN -1
  ELSE LET d == DigitTable[f[1]]
           rest == SubSeq(f, 2, Len(f))
       IN  IF d > 5 THEN 1
           ELSE IF d < 5 THEN -1
           ELSE IF \E i \in 1..Len(rest) : rest[i] # "0" THEN 1 ELSE 0

\* round() of Python 3: to the nearest integer, a tie to the even one
RoundHalfEven(ip, cmp) ==
  IF cmp = 1 THEN ip + 1
  ELSE IF cmp = 0 THEN (IF ip % 2 = 0 THEN ip ELSE ip + 1)
  ELSE ip

\* int(round(float(s))) where float(s) succeeds
RoundFloat(s) ==
  LET b   == FloatBody(s)
      mag == RoundHalfEven(IntOfDigits(IntPart(b)), FracVsHalf(FracPart(b)))
  IN  IF FloatSign(s) = "-" THEN 0 - mag ELSE mag

\* the except branch: only the decimal digits of s
OnlyDigits(s) == SelectSeq(s, LAMBDA c : c \in Digits)

parse_preco(v) ==
  IF v = None THEN NoPreco
  ELSE LET s0 == Strip(v) IN
       IF s0 = <<>> THEN NoPreco
       ELSE LET s == CommaToDot(RemoveDots(s0)) IN
            IF FloatOk(s) THEN SomePreco(RoundFloat(s))
            ELSE LET digs == OnlyDigits(s) IN
                 IF digs # <<>> THEN SomePreco(IntOfDigits(digs)) ELSE NoPreco

\* ------------------------------------------------------------------------
\* to_csv_url.  A URL is a sequence of tokens (host and path, "/pubhtml",
\* "/pub", "?", "&", a query parameter), so that `x in url` and
\* url.replace(x, y) are the membership and the replacement of a token.
\* ------------------------------------------------------------------------
UrlHas(url, tok) == \E i \in 1..Len(url) : url[i] = tok

to_csv_url(url) ==
  IF url = <<>> THEN <<>>
  ELSE IF UrlHas(url, "output=csv") THEN url
  ELSE IF UrlHas(url, "/pubhtml")
    THEN LET u   == [i \in 1..Len(url) |-> IF url[i] = "/pubhtml" THEN "/pub" ELSE url[i]]
             sep == IF UrlHas(u, "?") THEN "&" ELSE "?"
         IN  u \o <<sep, "output=csv">>
  ELSE url

\* the values of the environment variable MATERIAIS_URL (stripped): unset, or
\* a published-HTML link
Urls ==
  { <<>>,
    <<"https://docs.google.com/spreadsheets/d/e/K", "/pubhtml", "?", "gid=0">> }

\* ------------------------------------------------------------------------
\* Material names and price cells used as inputs
\* ------------------------------------------------------------------------
Couro == <<"C","o","u","r","o">>

CouroDe == Couro \o <<" ","d","e"," ">>

CouroBovino == Couro \o <<" ","B","o","v","i","n","o">>

CouroDeTilapia == CouroDe \o <<"T","i","l","aacute","p","i","a">>

CouroDeJacare == CouroDe \o <<"J","a","c","a","r","eacute">>

CouroDePython == CouroDe \o <<"P","y","t","h","o","n">>

CouroDeAvestruz == CouroDe \o <<"A","v","e","s","t","r","u","z">>

CouroDePirarucu == CouroDe \o <<"P","i","r","a","r","u","c","u">>

CouroDeElefante == CouroDe \o <<"E","l","e","f","a","n","t","e">>

Jeans == <<"J","e","a","n","s">>

JEANS == <<"J","E","A","N","S">>

CouroHifenJacare ==
  <<"c","o","u","r","o","-","d","e","-","j","a","c","a","r","e">>

Lona == <<"l","o","n","a">>

\* ------------------------------------------------------------------------
\* The fetched sheet.  csv.DictReader yields one dict per data row, from the
\* header's column names to the row's cells: a row is a function from column
\* names to cells; a column left out of a row stands for a cell that is
\* missing or empty there (row.get gives None or "", which `or` treats
\* alike).  The columns "preco" with a cedilla and "preco (r$)" are written
\* preco_cedilha and preco_rs.
\* ------------------------------------------------------------------------
\* dict.get(k): None when the row has no such column
Get(row, k) == IF k \in DOMAIN row THEN row[k] ELSE None

\* a or b, for str-or-None operands
Or(a, b) == IF a # None /\ a # <<>> THEN a ELSE b

\* str(v)
Str(v) == IF v = None THEN <<"N","o","n","e">> ELSE v

BaseSheets ==
  { \* the catalog of the specification's example, then a respelling of a key
    << [materiais |-> CouroBovino, preco |-> <<"1","0","0">>],
       [materiais |-> CouroDeTilapia, preco |-> <<"5","0">>],
       [materiais |-> Jeans, preco |-> <<"3","0">>],
       [materiais |-> JEANS, preco |-> <<"4","1">>] >>,
    \* other header names, a premium leather, a key written twice
    << [material |-> CouroDeJacare,
        preco_rs |-> <<"R","$"," ","1",".","4","9","7",",","0","0">>],
       [materiais |-> <<>>, nome |-> <<" ">> \o Jeans, preco_cedilha |-> <<"2",",","5">>],
       [materiais |-> CouroHifenJacare, preco |-> <<"-","5">>],
       [materiais |-> Lona, preco |-> <<"7">>] >>,
    \* rows the load skips: no name, no price, an empty key
    << [materiais |-> <<" ">>, preco |-> <<"1","0">>],
       [materiais |-> Lona, preco |-> <<"-">>],
       [materiais |-> <<"d","e">>, preco |-> <<"9">>],
       [materiais |-> Lona] >> }

Prefix(s, n) == SubSeq(s, 1, IF Len(s) < n THEN Len(s) ELSE n)

\* what a successful fetch can return: the first MaxRows rows of a sheet
Sheets == {Prefix(b, MaxRows) : b \in BaseSheets}

\* ------------------------------------------------------------------------
\* CATALOGO: a dict from normalized name to {"preco": int, "display": str}
\* ------------------------------------------------------------------------
EmptyDict == <<>>

\* d[key] = val
DictSet(d, key, val) ==
  [k \in DOMAIN d \cup {key} |-> IF k = key THEN val ELSE d[k]]

\* lines 88-89: the name and price cells of a row
RowMat(row) ==
  Or(Or(Or(Get(row, "materiais"), Get(row, "material")), Get(row, "nome")), <<>>)

RowPrecoRaw(row) ==
  Or(Or(Or(Get(row, "preco"), Get(row, "preco_cedilha")), Get(row, "preco_rs")), <<>>)

\* lines 91-101: whether the loop body reaches the assignment of line 103
RowAccepted(row) ==
  LET mat == Strip(Str(RowMat(row))) IN
  /\ mat # <<>>
  /\ parse_preco(RowPrecoRaw(row)) # NoPreco
  /\ norm_nome(mat) # <<>>

\* an iteration that files the entry under the lower-cased name
ProcessRowLower(c, row) ==
  LET mat   == Strip(Str(RowMat(row)))
      preco == parse_preco(RowPrecoRaw(row))
  IN  IF RowAccepted(row)
        THEN DictSet(c, lower(mat), [preco |-> preco[1], display |-> mat])
        ELSE c

\* lines 86-104: one iteration of the loop on catalog c
ProcessRow(c, row) ==
  LET mat   == Strip(Str(RowMat(row)))
      preco == parse_preco(RowPrecoRaw(row))
      key   == norm_nome(mat)
  IN  IF RowAccepted(row)
        THEN DictSet(c, key, [preco |-> preco[1], display |-> mat])
        ELSE c

\* ------------------------------------------------------------------------
\* State
\* ------------------------------------------------------------------------
\* the threads that run carregar_catalogo: Boot runs the call of line 109 at
\* import, then serves POST /reload like Other
Loaders == {"Boot", "Other"}

VARIABLES
  MATERIAIS_URL,  \* line 61
  CATALOGO,       \* line 62
  serving,        \* the import of the module has finished: requests are served
  ld,             \* per loader thread: the frame of carregar_catalogo / reload
  rq,             \* the thread serving /health, /materiais and /preco: its frame
  arg,            \* input of the pure function under test (SpecFn)
  out             \* its result (SpecFn)

vars == <<MATERIAIS_URL, CATALOGO, serving, ld, rq, arg, out>>

\* A loader frame.  pc: "idle", "clear" (line 66 is next), "fetch" (line 73),
\* "rows" (the loop of line 86), "return" (carregar_catalogo has returned),
\* "done" (the response is sent).  fetch: which way the load went: "none",
\* "no_url" (line 70), "failed" (line 77), "ok".  reader: the rows not yet
\* read.  content: the rows fetched.  alone: no other load has been running
\* since this one began.  before: CATALOGO when the call began (kept while
\* alone).  resp: the response of
\* POST /reload.
NoResp == [status |-> 0]

IdleLoader ==
  [pc |-> "idle", via |-> "none", fetch |-> "none", reader |-> <<>>,
   content |-> <<>>, linhas |-> 0, lidas |-> 0, before |-> EmptyDict,
   alone |-> TRUE, resp |-> NoResp]

Active(t) == ld[t].pc \in {"clear", "fetch", "rows", "return"}

\* A request frame.  rota: the handler; pc: "idle", "check" (the loop of line
\* 166), "soma" (the loop of line 175), "iter" (the loop of line 140), "done";
\* clean: CATALOGO has not changed since the handler began.
IdleRequest ==
  [rota |-> "none", pc |-> "idle", materiais |-> <<>>, itens |-> <<>>,
   keys_norm |-> <<>>, i |-> 0, desconhecidos |-> <<>>, soma |-> 0, used |-> 0,
   clean |-> TRUE, resp |-> NoResp]

\* The worker threads of the server: two handlers run at the same time, a
\* third request waits for a free thread.
Workers == {"w1", "w2"}

\* the handlers that hold a worker thread (from the request to the end of its
\* response), and whether a thread is free
Running ==
  Cardinality({t \in Loaders : ld[t].pc # "idle"})
  + (IF rq.pc = "idle" THEN 0 ELSE 1)

ThreadFree == serving /\ Running < Cardinality(Workers)

\* no function has been called on arg
NoCall == [fn |-> "none", ret |-> <<>>]

Init ==
  /\ MATERIAIS_URL \in Urls
  /\ CATALOGO = EmptyDict
  /\ serving = FALSE
  /\ ld = [t \in Loaders |->
             IF t = "Boot" THEN [IdleLoader EXCEPT !.pc = "clear", !.via = "import"]
             ELSE IdleLoader]
  /\ rq = IdleRequest
  /\ arg = <<>>
  /\ out = NoCall

\* the request frame after a loader has made CATALOGO c
Touched(c) == IF c = CATALOGO THEN rq ELSE [rq EXCEPT !.clean = FALSE]

\* ------------------------------------------------------------------------
\* carregar_catalogo and POST /reload
\* ------------------------------------------------------------------------
OthersIdle(t) == \A v \in Loaders \ {t} : ld[v].pc = "idle"

\* lines 143-146: reload() is entered and calls carregar_catalogo().  The
\* request goes to the first idle loader thread.
Reload(t) ==
  /\ ThreadFree
  /\ ld[t].pc = "idle"
  /\ t = "Other" => ld["Boot"].pc # "idle"
  /\ ld' = [u \in Loaders |->
              IF u = t
                THEN [IdleLoader EXCEPT !.pc = "clear", !.via = "reload",
                                        !.before = IF OthersIdle(t) THEN CATALOGO ELSE EmptyDict,
                                        !.alone = OthersIdle(t)]
              ELSE IF ld[u].pc # "idle"
                THEN [ld[u] EXCEPT !.alone = FALSE, !.before = EmptyDict]
              ELSE ld[u]]
  /\ UNCHANGED <<MATERIAIS_URL, CATALOGO, serving, rq, arg, out>>

\* a load that does not empty the dict first
NotCleared(c) == c

\* the dict after CATALOGO.clear()
Cleared(c) == EmptyDict

\* lines 66-70: clear the catalog, then return if no URL is configured
Clear(t) ==
  /\ ld[t].pc = "clear"
  /\ CATALOGO' = Cleared(CATALOGO)
  /\ rq' = Touched(CATALOGO')
  /\ ld' = [ld EXCEPT ![t] =
              IF to_csv_url(MATERIAIS_URL) = <<>>
                THEN [@ EXCEPT !.pc = "return", !.fetch = "no_url"]
                ELSE [@ EXCEPT !.pc = "fetch"]]
  /\ UNCHANGED <<MATERIAIS_URL, serving, arg, out>>

\* lines 72-77: the download fails (transport error or HTTP error status)
FetchFails(t) ==
  /\ ld[t].pc = "fetch"
  /\ ld' = [ld EXCEPT ![t] = [@ EXCEPT !.pc = "return", !.fetch = "failed"]]
  /\ UNCHANGED <<MATERIAIS_URL, CATALOGO, serving, rq, arg, out>>

\* lines 72-85: the download succeeds; the reader is set on its rows
FetchOk(t) ==
  /\ ld[t].pc = "fetch"
  /\ \E sheet \in Sheets :
       ld' = [ld EXCEPT ![t] = [@ EXCEPT !.pc = "rows", !.fetch = "ok",
                                         !.reader = sheet, !.content = sheet,
                                         !.linhas = 0, !.lidas = 0]]
  /\ UNCHANGED <<MATERIAIS_URL, CATALOGO, serving, rq, arg, out>>

\* lines 86-104: one iteration of the loop
Row(t) ==
  /\ ld[t].pc = "rows"
  /\ ld[t].reader # <<>>
  /\ LET row == Head(ld[t].reader) IN
       /\ CATALOGO' = ProcessRow(CATALOGO, row)
       /\ ld' = [ld EXCEPT ![t] =
                   [@ EXCEPT !.reader = Tail(@),
                             !.linhas = @ + 1,
                             !.lidas = IF RowAccepted(row) THEN @ + 1 ELSE @]]
  /\ rq' = Touched(CATALOGO')
  /\ UNCHANGED <<MATERIAIS_URL, serving, arg, out>>

\* line 106: the loop is over; the counts are logged and the load returns
EndLoad(t) ==
  /\ ld[t].pc = "rows"
  /\ ld[t].reader = <<>>
  /\ ld' = [ld EXCEPT ![t] = [@ EXCEPT !.pc = "return"]]
  /\ UNCHANGED <<MATERIAIS_URL, CATALOGO, serving, rq, arg, out>>

\* the body of the response of POST /reload, line 147
ReloadBody(c) == [status |-> 200, ok |-> TRUE, materiais_catalogo |-> Cardinality(DOMAIN c)]

\* line 109 (the import goes on and the server starts) or line 147 (reload()
\* answers)
Return(t) ==
  /\ ld[t].pc = "return"
  /\ ld' = [ld EXCEPT ![t] =
              [@ EXCEPT !.pc = "done",
                        !.resp = IF ld[t].via = "reload" THEN ReloadBody(CATALOGO) ELSE NoResp]]
  /\ serving' = TRUE
  /\ UNCHANGED <<MATERIAIS_URL, CATALOGO, rq, arg, out>>

\* the thread is free for the next request
Close(t) ==
  /\ ld[t].pc = "done"
  /\ ld' = [ld EXCEPT ![t] = IdleLoader]
  /\ UNCHANGED <<MATERIAIS_URL, CATALOGO, serving, rq, arg, out>>

\* ------------------------------------------------------------------------
\* GET /health and GET /materiais
\* ------------------------------------------------------------------------
\* lines 129-135
Health ==
  /\ ThreadFree
  /\ rq.pc = "idle"
  /\ rq' = [IdleRequest EXCEPT
              !.rota = "/health", !.pc = "done",
              !.resp = [status |-> 200, ok |-> TRUE,
                        materiais_catalogo |-> Cardinality(DOMAIN CATALOGO)]]
  /\ UNCHANGED <<MATERIAIS_URL, CATALOGO, serving, ld, arg, out>>

\* the characters in the order of their code points
CodePoints ==
  <<" ", "$", "+", ",", "-", ".",
    "0","1","2","3","4","5","6","7","8","9",
    "A","B","C","D","E","F","G","H","I","J","K","L","M",
    "N","O","P","Q","R","S","T","U","V","W","X","Y","Z", "_",
    "a","b","c","d","e","f","g","h","i","j","k","l","m",
    "n","o","p","q","r","s","t","u","v","w","x","y","z",
    "Eacute", "aacute", "atilde", "ccedil", "eacute", "euro", "jing", "bei">>

CodeOf(c) == CHOOSE i \in 1..Len(CodePoints) : CodePoints[i] = c

\* a < b for two str
RECURSIVE StrLess(_, _)
StrLess(a, b) ==
  IF b = <<>> THEN FALSE
  ELSE IF a = <<>> THEN TRUE
  ELSE IF Head(a) = Head(b) THEN StrLess(Tail(a), Tail(b))
  ELSE CodeOf(Head(a)) < CodeOf(Head(b))

\* sorted(S, key=lambda x: x.lower()) for a set S of str with distinct keys
RECURSIVE SortedByLower(_)
SortedByLower(S) ==
  IF S = {} THEN <<>>
  ELSE LET m == CHOOSE x \in S : \A y \in S \ {x} : StrLess(lower(x), lower(y))
       IN  <<m>> \o SortedByLower(S \ {m})

\* line 140: the list comprehension starts to iterate CATALOGO.values()
MateriaisIter ==
  /\ ThreadFree
  /\ rq.pc = "idle"
  /\ rq' = [IdleRequest EXCEPT !.rota = "/materiais", !.pc = "iter",
                               !.used = Cardinality(DOMAIN CATALOGO)]
  /\ UNCHANGED <<MATERIAIS_URL, CATALOGO, serving, ld, arg, out>>

\* lines 140-141: the iteration ends.  A dict whose size changed under the
\* iterator raises RuntimeError (an HTTP 500); otherwise the entries now in
\* the dict are listed.
MateriaisEnd ==
  /\ rq.pc = "iter"
  /\ rq' = [rq EXCEPT
              !.pc = "done",
              !.resp = IF Cardinality(DOMAIN CATALOGO) # rq.used
                         THEN [status |-> 500, erro |-> "RuntimeError"]
                         ELSE LET itens == SortedByLower({CATALOGO[k].display : k \in DOMAIN CATALOGO})
                              IN  [status |-> 200, itens |-> itens, total |-> Len(itens)]]
  /\ UNCHANGED <<MATERIAIS_URL, CATALOGO, serving, ld, arg, out>>

\* ------------------------------------------------------------------------
\* GET /preco
\* ------------------------------------------------------------------------
PREMIUM_KEYS ==
  { norm_nome(n) : n \in {CouroDeJacare, CouroDePython, CouroDeAvestruz,
                          CouroDePirarucu, CouroDeElefante} }

\* a classifier that looks at the first key only
classificar_primeiro(keys_norm) ==
  IF keys_norm # <<>> /\ keys_norm[1] \in PREMIUM_KEYS
    THEN "Couro Premium" ELSE "Casual Urbano"

classificar_categoria(keys_norm) ==
  IF \E i \in 1..Len(keys_norm) : keys_norm[i] \in PREMIUM_KEYS
    THEN "Couro Premium" ELSE "Casual Urbano"

\* ",".join(ps)
RECURSIVE JoinComma(_)
JoinComma(ps) ==
  IF ps = <<>> THEN <<>>
  ELSE IF Len(ps) = 1 THEN ps[1]
  ELSE ps[1] \o <<",">> \o JoinComma(Tail(ps))

\* the pieces the generated queries are made of
Pieces == { Jeans, <<" ">> \o CouroHifenJacare \o <<" ">> }

\* the values of the query parameter `materiais`: absent, blank, the two
\* examples of the specification, a list with an empty piece, a list with a
\* premium leather, and every list of at most MaxItens pieces
SplitExample == <<" "," ","A"," ",",","B",",",","," ","C"," ">>

PrecoExample ==
  CouroBovino \o <<",", " ">> \o CouroDeTilapia \o <<",", " ">> \o Jeans

DropExample == <<" ">> \o Jeans \o <<",", ",", " ">> \o JEANS \o <<" ">>

PremiumExample == Jeans \o <<",">> \o CouroHifenJacare

Queries ==
  {None, <<" ", " ">>, SplitExample, PrecoExample, DropExample, PremiumExample}
  \cup UNION { {JoinComma(f) : f \in [1..n -> Pieces]} : n \in 1..MaxItens }

\* a split that keeps the empty pieces
SplitItensKeepEmpty(materiais_str) ==
  LET ps == SplitOn(materiais_str, ",", <<>>)
  IN  [j \in 1..Len(ps) |-> Strip(ps[j])]

\* line 160: the trimmed non-empty pieces
SplitItens(materiais_str) ==
  LET ps == SplitOn(materiais_str, ",", <<>>)
      tr == [j \in 1..Len(ps) |-> Strip(ps[j])]
  IN  SelectSeq(tr, LAMBDA x : x # <<>>)

\* lines 155-165: the parameter is read, split and normalized
PrecoStart ==
  /\ ThreadFree
  /\ rq.pc = "idle"
  /\ \E q \in Queries :
       LET materiais_str == Strip(Or(q, <<>>))
           itens == SplitItens(materiais_str)
       IN  rq' =
             IF materiais_str = <<>>
               THEN [IdleRequest EXCEPT !.rota = "/preco", !.pc = "done", !.materiais = q,
                       !.resp = [status |-> 400, erro |-> "Materiais nao informados"]]
             ELSE IF itens = <<>>
               THEN [IdleRequest EXCEPT !.rota = "/preco", !.pc = "done", !.materiais = q,
                       !.resp = [status |-> 400, erro |-> "Nenhum material valido informado"]]
             ELSE [IdleRequest EXCEPT !.rota = "/preco", !.pc = "check", !.materiais = q,
                     !.itens = itens,
                     !.keys_norm = [j \in 1..Len(itens) |-> norm_nome(itens[j])],
                     !.i = 1]
  /\ UNCHANGED <<MATERIAIS_URL, CATALOGO, serving, ld, arg, out>>

\* a lookup among the display names instead of the keys
InCatalogByDisplay(k) == \E e \in DOMAIN CATALOGO : CATALOGO[e].display = k

\* k in CATALOGO
InCatalog(k) == k \in DOMAIN CATALOGO

\* lines 166-172: one membership test of the list comprehension; after the
\* last one, the 404 answer if any name was unknown
PrecoCheck ==
  /\ rq.pc = "check"
  /\ LET i == rq.i
         desconhecidos ==
           IF InCatalog(rq.keys_norm[i]) THEN rq.desconhecidos
           ELSE Append(rq.desconhecidos, rq.itens[i])
     IN  rq' =
           IF i < Len(rq.itens)
             THEN [rq EXCEPT !.i = i + 1, !.desconhecidos = desconhecidos]
           ELSE IF desconhecidos # <<>>
             THEN [rq EXCEPT !.pc = "done", !.desconhecidos = desconhecidos,
                     !.resp = [status |-> 404,
                               erro |-> "Alguns materiais nao existem no catalogo",
                               materiais_desconhecidos |-> desconhecidos]]
           ELSE [rq EXCEPT !.pc = "soma", !.i = 1, !.soma = 0]
  /\ UNCHANGED <<MATERIAIS_URL, CATALOGO, serving, ld, arg, out>>

\* round(soma / n): the nearest integer, a tie to the even one
RoundDiv(soma, n) ==
  LET q == soma \div n
      r == soma % n
  IN  IF 2 * r > n THEN q + 1
      ELSE IF 2 * r < n THEN q
      ELSE IF q % 2 = 0 THEN q ELSE q + 1

\* an answer that divides by the number of distinct keys
PrecoBodyDistinct(itens, keys_norm, soma) ==
  LET n == Cardinality({keys_norm[j] : j \in 1..Len(keys_norm)}) IN
  [status |-> 200,
   materiais |-> itens,
   preco |-> RoundDiv(soma, n),
   categoria |-> classificar_categoria(keys_norm),
   soma_precos_unitarios |-> soma,
   quantidade_materiais |-> n]

\* lines 176-189: the answer, once the prices are summed
PrecoBody(itens, keys_norm, soma) ==
  [status |-> 200,
   materiais |-> itens,
   preco |-> RoundDiv(soma, Len(keys_norm)),
   categoria |-> classificar_categoria(keys_norm),
   soma_precos_unitarios |-> soma,
   quantidade_materiais |-> Len(keys_norm)]

\* line 175: one CATALOGO[k]["preco"] of the sum; a key that is no longer in
\* the dict raises KeyError (an HTTP 500); after the last one, lines 176-189
PrecoSoma ==
  /\ rq.pc = "soma"
  /\ LET i == rq.i
         k == rq.keys_norm[i]
     IN  rq' =
           IF ~InCatalog(k)
             THEN [rq EXCEPT !.pc = "done", !.resp = [status |-> 500, erro |-> "KeyError"]]
           ELSE LET soma == rq.soma + CATALOGO[k].preco IN
                IF i < Len(rq.keys_norm)
                  THEN [rq EXCEPT !.i = i + 1, !.soma = soma]
                  ELSE [rq EXCEPT !.pc = "done", !.soma = soma,
                          !.resp = PrecoBody(rq.itens, rq.keys_norm, soma)]
  /\ UNCHANGED <<MATERIAIS_URL, CATALOGO, serving, ld, arg, out>>

\* the response is sent and the thread is free for the next request
Finish ==
  /\ rq.pc = "done"
  /\ rq' = IdleRequest
  /\ UNCHANGED <<MATERIAIS_URL, CATALOGO, serving, ld, arg, out>>

\* ------------------------------------------------------------------------
\* The server
\* ------------------------------------------------------------------------
Next ==
  \/ \E t \in Loaders : Reload(t)
  \/ \E t \in Loaders : Clear(t)
  \/ \E t \in Loaders : FetchFails(t)
  \/ \E t \in Loaders : FetchOk(t)
  \/ \E t \in Loaders : Row(t)
  \/ \E t \in Loaders : EndLoad(t)
  \/ \E t \in Loaders : Return(t)
  \/ \E t \in Loaders : Close(t)
  \/ Health
  \/ MateriaisIter
  \/ MateriaisEnd
  \/ PrecoStart
  \/ PrecoCheck
  \/ PrecoSoma
  \/ Finish

Spec == Init /\ [][Next]_vars

\* ------------------------------------------------------------------------
\* The pure functions, each applied to a str of at most MaxLen characters or
\* to one of the examples
\* ------------------------------------------------------------------------
FnChars == {"d", "e", "D", "-", " ", "eacute", "bei", "1", "5", ",", "."}

PrecoCellExample == <<"R","$"," ","1",".","4","9","7",",","0","0">>

Abc123 == <<"a","b","c","1","2","3">>

FnInputs ==
  UNION { [1..n -> FnChars] : n \in 0..MaxLen }
  \cup {PrecoCellExample, Abc123, CouroDeJacare, CouroHifenJacare}

InitFn ==
  /\ MATERIAIS_URL = <<>>
  /\ CATALOGO = EmptyDict
  /\ serving = FALSE
  /\ ld = [t \in Loaders |-> IdleLoader]
  /\ rq = IdleRequest
  /\ arg \in FnInputs
  /\ out = NoCall

\* lines 99 and 165: key = norm_nome(mat)
CallNormNome ==
  /\ out.fn = "none"
  /\ out' = [fn |-> "norm_nome", ret |-> norm_nome(arg)]
  /\ UNCHANGED <<MATERIAIS_URL, CATALOGO, serving, ld, rq, arg>>

\* line 95: preco = parse_preco(preco_raw)
CallParsePreco ==
  /\ out.fn = "none"
  /\ out' = [fn |-> "parse_preco", ret |-> parse_preco(arg)]
  /\ UNCHANGED <<MATERIAIS_URL, CATALOGO, serving, ld, rq, arg>>

NextFn == CallNormNome \/ CallParsePreco

SpecFn == InitFn /\ [][NextFn]_vars

\* ------------------------------------------------------------------------
\* Properties
\* ------------------------------------------------------------------------
\* The catalog a load builds from the rows `content`, stated row by row: the
\* keys of the accepted rows, each with the last accepted row of that key.
KeyOfRow(row) == norm_nome(Strip(Str(RowMat(row))))

AcceptedIdx(content) ==
  { j \in 1..Len(content) :
      /\ Strip(Str(RowMat(content[j]))) # <<>>
      /\ parse_preco(RowPrecoRaw(content[j])) # NoPreco
      /\ KeyOfRow(content[j]) # <<>> }

BuiltFrom(content) ==
  LET acc     == AcceptedIdx(content)
      key     == [j \in acc |-> KeyOfRow(content[j])]
      last(k) == CHOOSE j \in acc : key[j] = k /\ \A m \in acc : key[m] = k => m <= j
  IN  [k \in {key[j] : j \in acc} |->
         [preco   |-> parse_preco(RowPrecoRaw(content[last(k)]))[1],
          display |-> Strip(Str(RowMat(content[last(k)])))]]

Size(c) == Cardinality(DOMAIN c)

\* loader t is serving a POST /reload that has not answered yet, and no other
\* load has been running since it began
ReloadingAlone(t) == ld[t].via = "reload" /\ Active(t) /\ ld[t].alone

\* C1: a reload whose fetch fails leaves the catalog exactly as it was before
\* that reload (same keys, prices and display names).
C1_FailedReloadKeepsCatalog ==
  \A t \in Loaders :
    (ld[t].via = "reload" /\ ld[t].fetch = "failed" /\ ld[t].alone
       /\ ld[t].pc \in {"return", "done"})
    => CATALOGO = ld[t].before

\* C2: while a reload is in progress, a read of the catalog size by /health
\* observes the complete catalog from before the reload or the complete newly
\* built catalog, never an empty or partly built one.
C2_ReadersSeeCompleteCatalog ==
  \A t \in Loaders :
    (rq.rota = "/health" /\ rq.pc = "done" /\ rq.clean /\ ReloadingAlone(t))
    => \/ rq.resp.materiais_catalogo = Size(ld[t].before)
       \/ /\ ld[t].fetch = "ok"
          /\ rq.resp.materiais_catalogo = Size(BuiltFrom(ld[t].content))

\* C3: a reload whose fetch failed never reports success to its caller.
C3_FailedReloadReportsFailure ==
  \A t \in Loaders :
    (ld[t].via = "reload" /\ ld[t].pc = "done" /\ ld[t].fetch = "failed")
    => ld[t].resp.ok = FALSE

\* the /preco handler has answered a query with at least one item, and the
\* catalog is the one it ran on
PrecoAnswered == rq.rota = "/preco" /\ rq.pc = "done" /\ rq.itens # <<>>

\* the items whose normalized key is not in catalog c, in query order
RECURSIVE AbsentItems(_, _)
AbsentItems(itens, c) ==
  IF itens = <<>> THEN <<>>
  ELSE (IF norm_nome(Head(itens)) \in DOMAIN c THEN <<>> ELSE <<Head(itens)>>)
       \o AbsentItems(Tail(itens), c)

\* C4: a /preco query with an item whose key is absent from the catalog gets
\* UnknownMaterials (404) listing exactly the trimmed originals of the absent
\* items in query order, and no price; with no absent key it never gets 404.
C4_UnknownMaterials ==
  (PrecoAnswered /\ rq.clean)
  => LET absent == AbsentItems(rq.itens, CATALOGO) IN
     IF absent # <<>>
       THEN /\ rq.resp.status = 404
            /\ rq.resp.materiais_desconhecidos = absent
            /\ "preco" \notin DOMAIN rq.resp
       ELSE rq.resp.status # 404

C4_Witness ==
  /\ PrecoAnswered /\ rq.clean
  /\ rq.resp.status = 404
  /\ Len(rq.itens) = 2
  /\ rq.resp.materiais_desconhecidos = <<rq.itens[2]>>

\* the sum of the unit prices of the items in catalog c, once per occurrence
RECURSIVE SumPrices(_, _)
SumPrices(itens, c) ==
  IF itens = <<>> THEN 0
  ELSE c[norm_nome(Head(itens))].preco + SumPrices(Tail(itens), c)

Abs(x) == IF x < 0 THEN 0 - x ELSE x

\* C5: when all items resolve, soma_precos_unitarios is the sum of the unit
\* prices counted once per occurrence, quantidade_materiais is the number of
\* items, and preco is an integer nearest to sum/count.
C5_AveragePrice ==
  (PrecoAnswered /\ rq.clean /\ rq.resp.status = 200)
  => LET sum   == SumPrices(rq.itens, CATALOGO)
         count == Len(rq.itens)
     IN  /\ rq.resp.soma_precos_unitarios = sum
         /\ rq.resp.quantidade_materiais = count
         /\ rq.resp.preco \in Int
         /\ 2 * Abs(count * rq.resp.preco - sum) <= count

\* prices 100, 50 and 30 give sum 180, count 3, price 60
C5_Witness ==
  /\ PrecoAnswered /\ rq.clean
  /\ rq.materiais = PrecoExample
  /\ rq.resp.status = 200
  /\ rq.resp.soma_precos_unitarios = 180
  /\ rq.resp.quantidade_materiais = 3
  /\ rq.resp.preco = 60
  /\ rq.resp.categoria = "Casual Urbano"

\* the normalized forms of the five premium leather names
PremiumSet ==
  { <<"c","o","u","r","o"," ","j","a","c","a","r","e">>,
    <<"c","o","u","r","o"," ","p","y","t","h","o","n">>,
    <<"c","o","u","r","o"," ","a","v","e","s","t","r","u","z">>,
    <<"c","o","u","r","o"," ","p","i","r","a","r","u","c","u">>,
    <<"c","o","u","r","o"," ","e","l","e","f","a","n","t","e">> }

\* C6: when all items resolve, the category is "Couro Premium" exactly when
\* some item's normalized key is in the premium set, whatever the other items
\* and their order; otherwise it is "Casual Urbano".
C6_Category ==
  (PrecoAnswered /\ rq.resp.status = 200)
  => rq.resp.categoria =
       IF \E j \in 1..Len(rq.itens) : norm_nome(rq.itens[j]) \in PremiumSet
         THEN "Couro Premium" ELSE "Casual Urbano"

C6_Witness ==
  /\ PrecoAnswered
  /\ rq.resp.status = 200
  /\ rq.resp.categoria = "Couro Premium"
  /\ Len(rq.itens) = 2
  /\ norm_nome(rq.itens[1]) \notin PremiumSet

\* C7: parse_preco("R$ 1.497,00") = 1497, parse_preco("") = None and
\* parse_preco("abc123") = 123.
C7_ParsePrecoExamples ==
  out.fn = "parse_preco"
  => /\ arg = PrecoCellExample => out.ret = <<1497>>
     /\ arg = <<>> => out.ret = NoPreco
     /\ arg = Abc123 => out.ret = <<123>>

\* C8: norm_nome is idempotent: norm_nome(norm_nome(x)) = norm_nome(x).
C8_NormNomeIdempotent ==
  out.fn = "norm_nome" => norm_nome(out.ret) = out.ret

\* the pieces of q between its commas, by position: piece p runs from From(p)
\* to To(p), and is trimmed to its first and last non-blank character
Commas(q) == {j \in 1..Len(q) : q[j] = ","}

Starts(q) == {1} \cup {j + 1 : j \in Commas(q)}

EndOf(q, a) ==
  IF \E j \in Commas(q) : j >= a
    THEN (CHOOSE j \in Commas(q) : j >= a /\ \A m \in Commas(q) : m >= a => j <= m) - 1
    ELSE Len(q)

Inked(q, a) == {j \in a..EndOf(q, a) : q[j] # " "}

Trimmed(q, a) ==
  LET ink == Inked(q, a)
      lo  == CHOOSE j \in ink : \A m \in ink : j <= m
      hi  == CHOOSE j \in ink : \A m \in ink : m <= j
  IN  SubSeq(q, lo, hi)

RECURSIVE PiecesFrom(_, _)
PiecesFrom(q, starts) ==
  IF starts = {} THEN <<>>
  ELSE LET a == CHOOSE j \in starts : \A m \in starts : j <= m IN
       (IF Inked(q, a) = {} THEN <<>> ELSE <<Trimmed(q, a)>>)
       \o PiecesFrom(q, starts \ {a})

ItemsOf(q) == PiecesFrom(q, Starts(q))

\* C9: for a non-blank parameter the items are the comma-separated pieces,
\* trimmed, empty pieces dropped, in their order and casing ("  A ,B,, C "
\* gives A, B, C), and a successful result echoes exactly this sequence.
C9_SplitAndEcho ==
  (rq.rota = "/preco" /\ rq.materiais # None
     /\ \E j \in 1..Len(rq.materiais) : rq.materiais[j] # " ")
  => /\ rq.itens = ItemsOf(rq.materiais)
     /\ rq.materiais = SplitExample => rq.itens = << <<"A">>, <<"B">>, <<"C">> >>
     /\ (rq.pc = "done" /\ rq.resp.status = 200) => rq.resp.materiais = ItemsOf(rq.materiais)

C9_Witness ==
  /\ rq.rota = "/preco" /\ rq.pc = "done"
  /\ rq.materiais = DropExample
  /\ rq.resp.status = 200
  /\ rq.resp.materiais = <<Jeans, JEANS>>

\* C10: when a successful load that ran alone returns, the catalog is exactly
\* the mapping built from that load's rows: one entry per key of an accepted
\* row, with the price and display name of the last accepted row of that key,
\* and nothing from an earlier load.
C10_CatalogIsLastLoad ==
  \A t \in Loaders :
    (ld[t].pc = "return" /\ ld[t].fetch = "ok" /\ ld[t].alone)
    => CATALOGO = BuiltFrom(ld[t].content)

C10_Witness ==
  \E t \in Loaders :
    /\ ld[t].pc = "return" /\ ld[t].fetch = "ok" /\ ld[t].alone
    /\ ld[t].via = "reload"
    /\ ld[t].lidas = 3
    /\ Size(CATALOGO) = 2
    /\ \E k \in DOMAIN ld[t].before : k \notin DOMAIN CATALOGO

\* every loader thread has finished a POST /reload whose fetch succeeded, and
\* the loads overlapped
ReloadsFinished ==
  /\ \A t \in Loaders :
       ld[t].via = "reload" /\ ld[t].fetch = "ok" /\ ld[t].pc \in {"return", "done"}
  /\ \E t \in Loaders : ~ld[t].alone

\* C11: when several reloads run interleaved, each on its own fetched content,
\* then once all of them have finished the catalog is the full result of
\* exactly one of them, never a mix of entries of two fetched contents.
C11_InterleavedReloadsNoMix ==
  ReloadsFinished => \E t \in Loaders : CATALOGO = BuiltFrom(ld[t].content)

\* C12: in every reachable state every catalog entry has a non-negative
\* integer unit price, whatever price cells the loaded source contains.
C12_PricesNonNegative ==
  \A k \in DOMAIN CATALOGO : CATALOGO[k].preco \in Nat

\* C13: a /preco request that runs while a reload runs always ends in one of
\* the structured outcomes (400 EmptyInput, 404 UnknownMaterials or a 200 price
\* result); a request that found all its keys in the membership check never
\* fails with an unhandled lookup error.
C13_PrecoStructuredOutcome ==
  (rq.rota = "/preco" /\ rq.pc = "done") => rq.resp.status \in {200, 400, 404}

\* C14: in every reachable state, the middle of a load included, every catalog
\* entry's key is non-empty and equals norm_nome of the entry's display name.
C14_KeyIsNormOfDisplay ==
  \A k \in DOMAIN CATALOGO : k # <<>> /\ k = norm_nome(CATALOGO[k].display)

\* a load is in the middle of its rows and the catalog holds "Couro de
\* Tilapia" (accent, capitals and particle) under its key
C14_Witness ==
  /\ \E t \in Loaders : ld[t].pc = "rows" /\ ld[t].reader # <<>> /\ ld[t].lidas > 0
  /\ \E k \in DOMAIN CATALOGO :
       /\ CATALOGO[k].display = CouroDeTilapia
       /\ k = <<"c","o","u","r","o"," ","t","i","l","a","p","i","a">>

====
